---- MODULE Spec2Model ----
(***************************************************************************)
(* A model of the in-place Mach-O container editor of macho.cpp (class     *)
(* MachO).  The file is a sequence of bytes; the in-memory object is the   *)
(* set of fields of MachO (is_fat, fat_magic, n_archs, file_size, archs).  *)
(* Every public editing method is one action.  The host is little-endian:  *)
(* a 32-bit value in memory is the 4-tuple of its bytes, lowest first, and *)
(* SWAP32 reverses that tuple.                                             *)
(***************************************************************************)
EXTENDS Integers, Sequences, FiniteSets, TLC

(***************************************************************************)
(* Bounds of the model.                                                    *)
(***************************************************************************)
\* number of operations applied to the opened container
MaxOps == 2
\* alignment exponent standing for the 4096-byte page (2^12) of cpu_pagesize
PageShift == 5
\* largest number of archs a container is grown to by insert_arch_from_macho
MaxArchs == 3
\* largest number of load commands insert_load_command grows a slice to
MaxCmds == 4

(***************************************************************************)
(* Program constants: struct sizes and command ids.                        *)
(***************************************************************************)
SizeofFatHeader == 8
SizeofFatArch == 20
SizeofMachHeader == 28
LC_SEGMENT == 1
LC_SYMTAB == 2
LC_UUID == 27
LC_SEGMENT_64 == 25
LC_CODE_SIGNATURE == 29
LC_VERSION_MIN == 36
LC_SOURCE_VERSION == 42
CPU_X86_64 == 16777223
CPU_ARM64 == 16777228
MH_EXECUTE == 2
MH_DYLIB == 6

\* magics as they lie in memory on the little-endian host
FAT_MAGIC == <<190, 186, 254, 202>>
FAT_CIGAM == <<202, 254, 186, 190>>
MH_MAGIC == <<206, 250, 237, 254>>
MH_CIGAM == <<254, 237, 250, 206>>
MH_MAGIC_64 == <<207, 250, 237, 254>>
MH_CIGAM_64 == <<254, 237, 250, 207>>

Max(a, b) == IF a >= b THEN a ELSE b
Min(a, b) == IF a <= b THEN a ELSE b
Pow2(n) == 2 ^ n

(***************************************************************************)
(* Layout primitives (macros.h).                                           *)
(***************************************************************************)
\* the memory image of a host-order 32-bit value
W32(v) == <<v % 256, (v \div 256) % 256, (v \div 65536) % 256, (v \div 16777216) % 256>>
\* the host-order value of a 4-byte memory image
V32(w) == w[1] + 256 * w[2] + 65536 * w[3] + 16777216 * w[4]
\* 64-bit variants; the values the model reads back fit in the low word
W64(v) == W32(v) \o W32((v \div 65536) \div 65536)
V64(w) == V32(SubSeq(w, 1, 4))

IS_FAT(magic) == magic \in {FAT_MAGIC, FAT_CIGAM}
IS_MAGIC(magic) == magic \in {FAT_MAGIC, FAT_CIGAM, MH_MAGIC, MH_CIGAM, MH_MAGIC_64, MH_CIGAM_64}
NeedsSwap(magic) == magic \in {FAT_CIGAM, MH_CIGAM, MH_CIGAM_64}
RECURSIVE Reverse(_)
Reverse(w) == IF Len(w) = 0 THEN <<>> ELSE Reverse(Tail(w)) \o <<Head(w)>>
\* SWAP32/SWAP64 on memory images: byte-reverse iff the magic is a swapped one
SWAP32(w, magic) == IF NeedsSwap(magic) THEN Reverse(w) ELSE w
SWAP64(w, magic) == IF NeedsSwap(magic) THEN Reverse(w) ELSE w
ROUND_UP(x, a) == ((x + a - 1) \div a) * a

\* cpu_pagesize (cpuinfo.h): the alignment exponent of a cpu family
cpu_pagesize(cputype) == IF cputype = CPU_ARM64 THEN PageShift + 2 ELSE PageShift

(***************************************************************************)
(* The byte I/O surface (stdio and fileutils.h) on a file f, offsets from 0*)
(***************************************************************************)
RECURSIVE Zeros(_)
Zeros(n) == IF n <= 0 THEN <<>> ELSE IF n = 1 THEN <<0>>
            ELSE Zeros(n \div 2) \o Zeros(n - n \div 2)
\* fread: the bytes [off, off+len) of f; the part beyond the end reads as 0
ReadAt(f, off, len) ==
    SubSeq(f, off + 1, Min(off + len, Len(f))) \o Zeros(off + len - Max(off, Len(f)))
\* fseeko and fwrite: a write beyond the end first fills the hole with 0
WriteAt(f, off, bytes) ==
    IF Len(bytes) = 0 THEN f
    ELSE SubSeq(f, 1, Min(off, Len(f))) \o Zeros(off - Len(f)) \o bytes
         \o SubSeq(f, off + Len(bytes) + 1, Len(f))
ftruncate(f, n) == IF n <= Len(f) THEN SubSeq(f, 1, n) ELSE f \o Zeros(n - Len(f))
fzero(f, off, len) == WriteAt(f, off, Zeros(len))
fmove(f, dst, src, len) == WriteAt(f, dst, ReadAt(f, src, len))
fcpy(dst, doff, src, soff, len) == WriteAt(dst, doff, ReadAt(src, soff, len))

(***************************************************************************)
(* On-disk images of the structures (mach-o/fat.h, mach-o/loader.h).       *)
(***************************************************************************)
RECURSIVE Flatten(_)
Flatten(ss) == IF Len(ss) = 0 THEN <<>> ELSE Head(ss) \o Flatten(Tail(ss))

RECURSIVE SumCmdsize(_)
SumCmdsize(lcs) == IF Len(lcs) = 0 THEN 0 ELSE Head(lcs).cmdsize + SumCmdsize(Tail(lcs))

\* struct fat_header {magic, nfat_arch} as write_fat_header fills it
FatHeaderImage(magic, n) == magic \o SWAP32(W32(n), magic)
\* struct fat_arch after swap_arch: every 32-bit field swapped by fat_magic
swap_arch(fa, magic) ==
    SWAP32(W32(fa.cputype), magic) \o SWAP32(W32(fa.cpusubtype), magic) \o
    SWAP32(W32(fa.offset), magic) \o SWAP32(W32(fa.size), magic) \o
    SWAP32(W32(fa.align), magic)
\* swap_arch applied to an image read from disk, giving the host-order fields
unswap_arch(img, magic) ==
    [cputype |-> V32(SWAP32(SubSeq(img, 1, 4), magic)),
     cpusubtype |-> V32(SWAP32(SubSeq(img, 5, 8), magic)),
     offset |-> V32(SWAP32(SubSeq(img, 9, 12), magic)),
     size |-> V32(SWAP32(SubSeq(img, 13, 16), magic)),
     align |-> V32(SWAP32(SubSeq(img, 17, 20), magic))]
\* struct mach_header as it lies in memory and is written verbatim
MachHeaderImage(mh) ==
    mh.magic \o W32(mh.cputype) \o W32(mh.cpusubtype) \o W32(mh.filetype) \o
    W32(mh.ncmds) \o W32(mh.sizeofcmds) \o W32(mh.flags)
ParseMachHeader(img) ==
    [magic |-> SubSeq(img, 1, 4),
     cputype |-> V32(SubSeq(img, 5, 8)),
     cpusubtype |-> V32(SubSeq(img, 9, 12)),
     filetype |-> V32(SubSeq(img, 13, 16)),
     ncmds |-> V32(SubSeq(img, 17, 20)),
     sizeofcmds |-> V32(SubSeq(img, 21, 24)),
     flags |-> V32(SubSeq(img, 25, 28))]

\* segname[16]: the name, zero padded
Segname(chars) == chars \o Zeros(16 - Len(chars))
SEG_LINKEDIT == Segname(<<95, 95, 76, 73, 78, 75, 69, 68, 73, 84>>)
SEG_TEXT == Segname(<<95, 95, 84, 69, 88, 84>>)

\* field views of the payloads remove_codesignature decodes
\* segment_command: cmd cmdsize segname[16] vmaddr vmsize fileoff filesize ...
SegmentImage(name, vmsize, fileoff, filesize) ==
    W32(LC_SEGMENT) \o W32(56) \o name \o W32(0) \o W32(vmsize) \o
    W32(fileoff) \o W32(filesize) \o W32(7) \o W32(1) \o W32(0) \o W32(0)
\* segment_command_64: the four address fields are 64-bit
Segment64Image(name, vmsize, fileoff, filesize) ==
    W32(LC_SEGMENT_64) \o W32(72) \o name \o W64(0) \o W64(vmsize) \o
    W64(fileoff) \o W64(filesize) \o W32(7) \o W32(1) \o W32(0) \o W32(0)
\* symtab_command: cmd cmdsize symoff nsyms stroff strsize
SymtabImage(symoff, nsyms, stroff, strsize) ==
    W32(LC_SYMTAB) \o W32(24) \o W32(symoff) \o W32(nsyms) \o W32(stroff) \o W32(strsize)
\* linkedit_data_command: cmd cmdsize dataoff datasize
CodesigImage(dataoff, datasize) ==
    W32(LC_CODE_SIGNATURE) \o W32(16) \o W32(dataoff) \o W32(datasize)
\* any other command: only cmd and cmdsize are interpreted
RECURSIVE Fill(_, _)
Fill(n, b) == IF n <= 0 THEN <<>> ELSE <<b>> \o Fill(n - 1, b)
PlainImage(cmd, cmdsize, fill) == W32(cmd) \o W32(cmdsize) \o Fill(cmdsize - 8, fill)

SegName(raw) == SubSeq(raw, 9, 24)
SegFileoff(raw) == IF V32(SubSeq(raw, 1, 4)) = LC_SEGMENT
                   THEN V32(SubSeq(raw, 33, 36)) ELSE V64(SubSeq(raw, 41, 48))
SegFilesize(raw) == IF V32(SubSeq(raw, 1, 4)) = LC_SEGMENT
                    THEN V32(SubSeq(raw, 37, 40)) ELSE V64(SubSeq(raw, 49, 56))
SegVmsize(raw) == IF V32(SubSeq(raw, 1, 4)) = LC_SEGMENT
                  THEN V32(SubSeq(raw, 29, 32)) ELSE V64(SubSeq(raw, 33, 40))

(***************************************************************************)
(* Construction: MachO::MachO(filename) and the slice model it builds.     *)
(***************************************************************************)
\* LoadCommand(magic, offset, raw_lc): cmd and cmdsize decoded under the slice magic
LoadCommand(magic, offset, raw) ==
    [cmd |-> V32(SWAP32(SubSeq(raw, 1, 4), magic)),
     cmdsize |-> V32(SWAP32(SubSeq(raw, 5, 8), magic)),
     file_offset |-> offset,
     raw_lc |-> raw]

RECURSIVE ReadLoadCommands(_, _, _, _)
ReadLoadCommands(f, magic, off, n) ==
    IF n = 0 THEN <<>>
    ELSE LET cmdsize == V32(SWAP32(ReadAt(f, off + 4, 4), magic))
             lc == LoadCommand(magic, off, ReadAt(f, off, cmdsize))
         IN <<lc>> \o ReadLoadCommands(f, magic, off + cmdsize, n - 1)

\* MachOArch(&fat_arch, file): the header at the slice start, then ncmds commands
MachOArch(fa, f) ==
    LET mh == ParseMachHeader(ReadAt(f, fa.offset, SizeofMachHeader))
    IN [fat_arch |-> fa,
        mach_header |-> mh,
        load_commands |-> ReadLoadCommands(f, mh.magic, fa.offset + SizeofMachHeader, mh.ncmds)]

\* arch_from_mach_header: the fat_arch of a thin file, fields in fat_magic order
arch_from_mach_header(mh, size, magic) ==
    LET cputype == V32(SWAP32(W32(mh.cputype), mh.magic))
    IN SWAP32(W32(cputype), magic) \o
       SWAP32(SWAP32(W32(mh.cpusubtype), mh.magic), magic) \o
       SWAP32(W32(0), magic) \o SWAP32(W32(size), magic) \o
       SWAP32(W32(cpu_pagesize(cputype)), magic)

\* the loop of the constructor over the fat entries i .. n-1 (from 0)
RECURSIVE ReadArchs(_, _, _, _)
ReadArchs(f, magic, i, n) ==
    IF i >= n THEN <<>>
    ELSE <<MachOArch(unswap_arch(ReadAt(f, SizeofFatHeader + i * SizeofFatArch,
                                        SizeofFatArch), magic), f)>>
         \o ReadArchs(f, magic, i + 1, n)

\* the object the constructor leaves for the file f
MachO(f) ==
    LET magic == ReadAt(f, 0, 4)
    IN IF IS_FAT(magic)
       THEN LET n == V32(SWAP32(ReadAt(f, 4, 4), magic))
            IN [file |-> f, file_size |-> Len(f), is_fat |-> TRUE, fat_magic |-> magic,
                n_archs |-> n,
                archs |-> ReadArchs(f, magic, 0, n)]
       ELSE LET mh == ParseMachHeader(ReadAt(f, 0, SizeofMachHeader))
                arch == arch_from_mach_header(mh, Len(f), FAT_CIGAM)
            IN [file |-> f, file_size |-> Len(f), is_fat |-> FALSE, fat_magic |-> FAT_CIGAM,
                n_archs |-> 1,
                archs |-> <<MachOArch(unswap_arch(arch, FAT_CIGAM), f)>>]

(***************************************************************************)
(* The files the model opens: slices built from load commands and data,    *)
(* thin or wrapped in a fat index.                                         *)
(***************************************************************************)
RoomBytes == 16
SigBytes == 8
StrBytes == 4

\* the load commands of a slice kind, given the slice size
KindCmds(kind, size) ==
    LET hdr == SizeofMachHeader
    IN CASE kind = "plain" ->
              <<PlainImage(LC_UUID, 24, 17), PlainImage(LC_VERSION_MIN, 16, 34),
                PlainImage(LC_SOURCE_VERSION, 8, 51)>>
         [] kind = "plain_arm" ->
              <<PlainImage(LC_UUID, 24, 68), PlainImage(LC_SOURCE_VERSION, 8, 85)>>
         [] kind = "empty" -> <<>>
         [] kind \in {"signed", "signed_far"} ->
              LET L == hdr + 152 + RoomBytes
              IN <<SegmentImage(SEG_TEXT, 4096, 0, L),
                   SegmentImage(SEG_LINKEDIT, 4096, L, size - L),
                   SymtabImage(L, 0, L, StrBytes),
                   CodesigImage(size - SigBytes, SigBytes)>>
         [] kind = "signed_rev" ->
              LET L == hdr + 152 + RoomBytes
              IN <<SegmentImage(SEG_LINKEDIT, 4096, L, size - L),
                   SegmentImage(SEG_TEXT, 4096, 0, L),
                   SymtabImage(L, 0, L, StrBytes),
                   CodesigImage(size - SigBytes, SigBytes)>>
         [] kind = "signed64" ->
              LET L == hdr + 112 + RoomBytes
              IN <<Segment64Image(SEG_LINKEDIT, 4096, L, size - L),
                   SymtabImage(L, 0, L, StrBytes),
                   CodesigImage(size - SigBytes, SigBytes)>>
         [] kind = "textonly" ->
              <<SegmentImage(SEG_TEXT, 4096, 0, size),
                CodesigImage(size - SigBytes, SigBytes)>>
         [] kind = "sigmid" ->
              LET L == hdr + 128 + RoomBytes
              IN <<SegmentImage(SEG_TEXT, 4096, 0, L),
                   SegmentImage(SEG_LINKEDIT, 4096, L, size - L),
                   CodesigImage(size - SigBytes - 4, SigBytes)>>
         \* a __LINKEDIT segment that ends at the slice end but is shorter
         \* than the signature, which ends there too
         [] kind = "sigbig" ->
              LET L == hdr + 128 + RoomBytes
              IN <<SegmentImage(SEG_TEXT, 4096, 0, L),
                   SegmentImage(SEG_LINKEDIT, 4096, size - SigBytes \div 2, SigBytes \div 2),
                   CodesigImage(size - SigBytes, SigBytes)>>
         \* a __LINKEDIT segment that holds the signature only, the string
         \* table ending StrBytes before it
         [] kind = "strout" ->
              LET L == hdr + 152 + RoomBytes
              IN <<SegmentImage(SEG_TEXT, 4096, 0, L + 2 * StrBytes),
                   SegmentImage(SEG_LINKEDIT, 4096, size - SigBytes, SigBytes),
                   SymtabImage(L, 0, L, StrBytes),
                   CodesigImage(size - SigBytes, SigBytes)>>

KindSize(kind) ==
    LET hdr == SizeofMachHeader
    IN CASE kind = "plain" -> hdr + 48 + RoomBytes + 4
         [] kind = "plain_arm" -> hdr + 32 + RoomBytes + 4
         [] kind = "empty" -> hdr + RoomBytes + 4
         [] kind = "signed" -> hdr + 152 + RoomBytes + StrBytes + 4 + SigBytes
         [] kind = "signed_far" -> hdr + 152 + RoomBytes + StrBytes + 20 + SigBytes
         [] kind = "signed_rev" -> hdr + 152 + RoomBytes + StrBytes + 4 + SigBytes
         [] kind = "signed64" -> hdr + 112 + RoomBytes + StrBytes + SigBytes
         [] kind = "textonly" -> hdr + 72 + RoomBytes + SigBytes
         [] kind = "sigmid" -> hdr + 128 + RoomBytes + 4 + SigBytes
         [] kind = "sigbig" -> hdr + 128 + RoomBytes + SigBytes
         [] kind = "strout" -> hdr + 152 + RoomBytes + 2 * StrBytes + SigBytes

KindCpu(kind) == IF kind = "plain_arm" THEN CPU_ARM64 ELSE CPU_X86_64

\* non-zero data bytes for the positions from..to of a slice
RECURSIVE DataBytes(_, _, _)
DataBytes(from, to, seed) ==
    IF from > to THEN <<>> ELSE <<((7 * from + seed) % 250) + 1>> \o DataBytes(from + 1, to, seed)

\* the bytes of a slice: header, load commands, zeroed room, then non-zero data
SliceImage(kind) ==
    LET size == KindSize(kind)
        cmds == KindCmds(kind, size)
        head == MachHeaderImage([magic |-> MH_MAGIC, cputype |-> KindCpu(kind),
                                 cpusubtype |-> 3, filetype |-> MH_EXECUTE,
                                 ncmds |-> Len(cmds), sizeofcmds |-> Len(Flatten(cmds)),
                                 flags |-> 0]) \o Flatten(cmds)
    IN head \o Zeros(RoomBytes) \o DataBytes(Len(head) + RoomBytes + 1, size, Len(head))

\* the offsets a fat file gives its slices: each at the next multiple of 2^align
RECURSIVE FatOffsets(_, _)
FatOffsets(kinds, from) ==
    IF Len(kinds) = 0 THEN <<>>
    ELSE LET off == ROUND_UP(from, Pow2(cpu_pagesize(KindCpu(Head(kinds)))))
         IN <<off>> \o FatOffsets(Tail(kinds), off + KindSize(Head(kinds)))

RECURSIVE PlaceSlices(_, _, _)
PlaceSlices(f, kinds, offs) ==
    IF Len(kinds) = 0 THEN f
    ELSE PlaceSlices(WriteAt(f, Head(offs), SliceImage(Head(kinds))), Tail(kinds), Tail(offs))

RECURSIVE FatEntries(_, _)
FatEntries(kinds, offs) ==
    IF Len(kinds) = 0 THEN <<>>
    ELSE swap_arch([cputype |-> KindCpu(Head(kinds)), cpusubtype |-> 3,
                    offset |-> Head(offs), size |-> KindSize(Head(kinds)),
                    align |-> cpu_pagesize(KindCpu(Head(kinds)))], FAT_CIGAM)
         \o FatEntries(Tail(kinds), Tail(offs))

FatFile(kinds) ==
    LET n == Len(kinds)
        offs == FatOffsets(kinds, SizeofFatHeader + n * SizeofFatArch)
    IN PlaceSlices(FatHeaderImage(FAT_CIGAM, n) \o FatEntries(kinds, offs), kinds, offs)

FileOf(shape) == IF shape.fat THEN FatFile(shape.kinds) ELSE SliceImage(shape.kinds[1])

(***************************************************************************)
(* The MachO object.  The methods are operators from the object m (all of  *)
(* its fields and the file) to the object they leave.                      *)
(***************************************************************************)
VARIABLES file, file_size, is_fat, fat_magic, n_archs, archs, nops, last, pre, last2, pre2, io

vars == <<file, file_size, is_fat, fat_magic, n_archs, archs, nops, last, pre, last2, pre2, io>>

Self == [file |-> file, file_size |-> file_size, is_fat |-> is_fat,
         fat_magic |-> fat_magic, n_archs |-> n_archs, archs |-> archs]

\* the object m entering a method, with the empty list of the method's I/O calls
Called(m) == [file |-> m.file, file_size |-> m.file_size, is_fat |-> m.is_fat,
              fat_magic |-> m.fat_magic, n_archs |-> m.n_archs, archs |-> m.archs,
              log |-> <<>>]

\* archs[i] and load_commands[i] of the code are indexed from 0
ArchAt(m, i) == m.archs[i + 1]
Back(s) == s[Len(s)]
RemoveAt(s, i) == SubSeq(s, 1, i) \o SubSeq(s, i + 2, Len(s))

\* The I/O calls of the methods, on the object m.  m.log lists the calls of
\* the running method in the order they are issued: the kind, the destination
\* offset (the new length, for a truncation), the source offset of a move
\* (else -1), the number of bytes, and the length of the file before the call.
IoCall(m, ev, dst, src, len) ==
    [ev |-> ev, dst |-> dst, src |-> src, len |-> len, flen |-> Len(m.file)]
Write(m, off, bytes) ==
    [m EXCEPT !.file = WriteAt(m.file, off, bytes),
              !.log = Append(@, IoCall(m, "write", off, -1, Len(bytes)))]
Truncate(m, n) ==
    [m EXCEPT !.file = ftruncate(m.file, n),
              !.log = Append(@, IoCall(m, "truncate", n, -1, 0))]
Zero(m, off, len) ==
    [m EXCEPT !.file = fzero(m.file, off, len),
              !.log = Append(@, IoCall(m, "zero", off, -1, Max(len, 0)))]
Move(m, dst, src, len) ==
    [m EXCEPT !.file = fmove(m.file, dst, src, len),
              !.log = Append(@, IoCall(m, "move", dst, src, len))]
Copy(m, doff, src_file, soff, len) ==
    [m EXCEPT !.file = fcpy(m.file, doff, src_file, soff, len),
              !.log = Append(@, IoCall(m, "copy", doff, -1, len))]

write_fat_header(m) ==
    IF ~m.is_fat THEN m
    ELSE Write(m, 0, FatHeaderImage(m.fat_magic, m.n_archs))

\* the loop of write_fat_archs: each fat_arch copied, swapped and written in turn
RECURSIVE EntryImages(_, _)
EntryImages(as, magic) ==
    IF Len(as) = 0 THEN <<>>
    ELSE swap_arch(Head(as).fat_arch, magic) \o EntryImages(Tail(as), magic)

write_fat_archs(m) ==
    IF ~m.is_fat
    THEN LET arch_size == m.archs[1].fat_arch.size
         IN IF m.file_size # arch_size
            THEN [Truncate(m, arch_size) EXCEPT !.file_size = arch_size]
            ELSE m
    ELSE LET entries == EntryImages(m.archs, m.fat_magic)
             m1 == Write(m, SizeofFatHeader, entries)
         IN IF m.n_archs > 0
            THEN LET new_size == Back(m.archs).fat_arch.offset + Back(m.archs).fat_arch.size
                 IN IF new_size # m.file_size
                    THEN [Truncate(m1, new_size) EXCEPT !.file_size = new_size]
                    ELSE m1
            ELSE m1

write_mach_header(m, arch) ==
    Write(m, arch.fat_arch.offset, MachHeaderImage(arch.mach_header))

write_load_command(m, lc) ==
    Write(m, lc.file_offset, SubSeq(lc.raw_lc, 1, lc.cmdsize))

make_fat(m) ==
    LET offset == ROUND_UP(SizeofFatHeader, Pow2(m.archs[1].fat_arch.align))
        m1 == Truncate(m, m.file_size + offset)
        m2 == Move(m1, offset, 0, m.file_size)
        m3 == Zero(m2, offset, 0)
        m4 == write_fat_header([m3 EXCEPT !.fat_magic = FAT_CIGAM])
        m5 == write_fat_archs([m4 EXCEPT !.archs[1].fat_arch.offset = offset])
    IN [m5 EXCEPT !.is_fat = TRUE, !.file_size = m5.file_size + offset]

\* make_thin without the move of the slice to offset 0
make_thin_no_move(m, arch_index, read) ==
    LET arch == ArchAt(m, arch_index)
        size == read.size
    IN [Truncate(m, size) EXCEPT !.archs = <<arch>>,
                                 !.file_size = size, !.n_archs = 1, !.is_fat = FALSE]

\* arch_index > 0: `arch` refers to an element that `archs = {arch}` destroyed;
\* read is what the reads of arch.fat_arch through that reference return
make_thin(m, arch_index, read) ==
    LET arch == ArchAt(m, arch_index)
        size == read.size
        m1 == Move(m, 0, read.offset, size)
    IN [Truncate(m1, size) EXCEPT !.archs = <<arch>>,
                                  !.file_size = size, !.n_archs = 1, !.is_fat = FALSE]

\* the values a read of the destroyed element's fat_arch can return
DanglingReads(m, arch_index) ==
    IF arch_index = 0 THEN {ArchAt(m, 0).fat_arch}
    ELSE {ArchAt(m, arch_index).fat_arch,
          [ArchAt(m, arch_index).fat_arch EXCEPT !.offset = 0, !.size = 0]}

\* the loop of remove_arch over the surviving archs i .. n_archs-1 (from 0)
RECURSIVE RepackFrom(_, _, _)
RepackFrom(m, i, new_offset) ==
    IF i >= m.n_archs THEN [m |-> m, new_offset |-> new_offset]
    ELSE LET arch == ArchAt(m, i)
             offset == arch.fat_arch.offset
             size == arch.fat_arch.size
             aligned == ROUND_UP(new_offset, Pow2(arch.fat_arch.align))
             m1 == Move([m EXCEPT !.archs[i + 1].fat_arch.offset = aligned],
                        aligned, offset, size)
             m2 == Zero(m1, aligned + size, offset - aligned)
         IN RepackFrom(m2, i + 1, aligned + size)

remove_arch(m, arch_index) ==
    LET arch == ArchAt(m, arch_index)
        m1 == Zero(m, arch.fat_arch.offset, arch.fat_arch.size)
        start == IF arch_index = 0 THEN SizeofFatHeader
                 ELSE ArchAt(m, arch_index - 1).fat_arch.offset
                      + ArchAt(m, arch_index - 1).fat_arch.size
        r == RepackFrom([m1 EXCEPT !.archs = RemoveAt(m.archs, arch_index),
                                   !.n_archs = m.n_archs - 1], arch_index, start)
        m2 == write_fat_archs(write_fat_header(r.m))
    IN [Truncate(m2, r.new_offset) EXCEPT !.file_size = r.new_offset]

insert_arch_from_macho(m, macho, arch_index) ==
    LET arch == ArchAt(macho, arch_index)
        \* macho.swap_arch(&fat_arch); swap_arch(&fat_arch);
        fa == unswap_arch(swap_arch(arch.fat_arch, macho.fat_magic), m.fat_magic)
        offset == ROUND_UP(m.file_size, Pow2(fa.align))
        placed == [arch EXCEPT !.fat_arch = [fa EXCEPT !.offset = offset]]
        new_size == m.file_size + offset
        m1 == Truncate(m, new_size)
        m2 == Zero(m1, m.file_size, offset - m.file_size)
        m3 == Copy(m2, offset, macho.file, 0, fa.size)
    IN write_fat_archs(write_fat_header(
          [m3 EXCEPT !.n_archs = m.n_archs + 1, !.archs = Append(m.archs, placed),
                     !.file_size = new_size]))

\* the loop of move_load_command: commands lc_index+1 .. new_index (from 0) slide down
RECURSIVE SlideDown(_, _, _, _, _)
SlideDown(m, lcs, i, new_index, new_offset) ==
    IF i > new_index THEN [m |-> m, lcs |-> lcs, new_offset |-> new_offset]
    ELSE LET lc == lcs[i + 1]
         IN SlideDown(Write(m, new_offset, SubSeq(lc.raw_lc, 1, lc.cmdsize)),
                      [lcs EXCEPT ![i + 1].file_offset = new_offset],
                      i + 1, new_index, new_offset + lc.cmdsize)

RECURSIVE move_load_command(_, _, _, _)
move_load_command(m, arch_index, lc_index, new_index) ==
    IF lc_index = new_index THEN m
    ELSE IF lc_index > new_index THEN move_load_command(m, arch_index, new_index, lc_index)
    ELSE LET lcs == ArchAt(m, arch_index).load_commands
             lc_to_move == lcs[lc_index + 1]
             r == SlideDown(m, lcs, lc_index + 1, new_index, lc_to_move.file_offset)
             moved == [lc_to_move EXCEPT !.file_offset = r.new_offset]
             m2 == Write(r.m, r.new_offset, SubSeq(moved.raw_lc, 1, moved.cmdsize))
         IN [m2 EXCEPT !.archs[arch_index + 1].load_commands =
                           Append(RemoveAt(r.lcs, lc_index), moved)]

remove_load_command(m, arch_index, lc_index) ==
    LET n == Len(ArchAt(m, arch_index).load_commands)
        m1 == IF n > 1 THEN move_load_command(m, arch_index, lc_index, n - 1) ELSE m
        lc == Back(ArchAt(m1, arch_index).load_commands)
        m2 == [m1 EXCEPT !.archs[arch_index + 1].mach_header.ncmds = @ - 1,
                         !.archs[arch_index + 1].mach_header.sizeofcmds = @ - lc.cmdsize]
        m3 == write_mach_header(m2, ArchAt(m2, arch_index))
    IN [Zero(m3, lc.file_offset, lc.cmdsize)
           EXCEPT !.archs[arch_index + 1].load_commands = SubSeq(@, 1, n - 1)]

insert_load_command(m, arch_index, raw_lc) ==
    LET arch == ArchAt(m, arch_index)
        offset == IF Len(arch.load_commands) = 0
                  THEN arch.fat_arch.offset + arch.fat_arch.size
                  ELSE Back(arch.load_commands).file_offset + Back(arch.load_commands).cmdsize
        magic == arch.mach_header.magic
        cmdsize == V32(SWAP32(SubSeq(raw_lc, 5, 8), magic))
        m1 == Write(m, offset, SubSeq(raw_lc, 1, cmdsize))
        m2 == [m1 EXCEPT !.archs[arch_index + 1].load_commands =
                             Append(@, LoadCommand(magic, offset, raw_lc)),
                         !.archs[arch_index + 1].mach_header.ncmds = @ + 1,
                         !.archs[arch_index + 1].mach_header.sizeofcmds = @ + cmdsize]
    IN write_mach_header(m2, ArchAt(m2, arch_index))

change_file_type(m, arch_index, file_type) ==
    LET m1 == [m EXCEPT !.archs[arch_index + 1].mach_header.filetype = file_type]
    IN write_mach_header(m1, ArchAt(m1, arch_index))

\* the last index (from 0) among the set S of indices, or -1: the scan
\* of remove_codesignature keeps the last command of each kind it meets
LastIndex(S) == IF S = {} THEN -1 ELSE CHOOSE i \in S : \A j \in S : j <= i
CmdIndices(lcs, cmd) == {i \in 0..(Len(lcs) - 1) : lcs[i + 1].cmd = cmd}

IsSegment(lc) == lc.cmd \in {LC_SEGMENT, LC_SEGMENT_64}
SegmentIndices(arch) == {i \in 0..(Len(arch.load_commands) - 1) : IsSegment(arch.load_commands[i + 1])}

\* The scan casts the LoadCommand object itself, not its payload, to
\* segment_command, so strncmp compares bytes of the object with "__LINKEDIT";
\* differs is the set of segment commands for which it returned non-zero.
\* A segment is taken as __LINKEDIT when the result is non-zero.
SetSegmentSizes(raw, filesize, vmsize) ==
    IF V32(SubSeq(raw, 1, 4)) = LC_SEGMENT
    THEN SubSeq(raw, 1, 28) \o W32(vmsize) \o SubSeq(raw, 33, 36) \o W32(filesize)
         \o SubSeq(raw, 41, Len(raw))
    ELSE SubSeq(raw, 1, 32) \o W64(vmsize) \o SubSeq(raw, 41, 48) \o W64(filesize)
         \o SubSeq(raw, 57, Len(raw))

\* steps is the number of the write steps of macho.cpp:469-473 that are
\* carried out: write_fat_archs, write_load_command, remove_load_command
remove_codesignature_upto(m, arch_index, differs, steps) ==
    LET arch == ArchAt(m, arch_index)
        lcs == arch.load_commands
        magic == arch.mach_header.magic
        codesig_index == LastIndex(CmdIndices(lcs, LC_CODE_SIGNATURE))
        linkedit_index == LastIndex(SegmentIndices(arch) \cap differs)
        symtab_index == LastIndex(CmdIndices(lcs, LC_SYMTAB))
    IN IF codesig_index = -1 \/ linkedit_index = -1 THEN [m |-> m, ret |-> FALSE]
       ELSE
       LET codesig_raw == lcs[codesig_index + 1].raw_lc
           codesig_offset == V32(SWAP32(SubSeq(codesig_raw, 9, 12), magic))
           codesig_size == V32(SWAP32(SubSeq(codesig_raw, 13, 16), magic))
           linkedit_raw == lcs[linkedit_index + 1].raw_lc
           linkedit_offset == SegFileoff(linkedit_raw)
           linkedit_size == SegFilesize(linkedit_raw)
       IN IF codesig_offset + codesig_size # arch.fat_arch.size THEN [m |-> m, ret |-> FALSE]
          ELSE IF linkedit_offset + linkedit_size # arch.fat_arch.size
          THEN [m |-> m, ret |-> FALSE]
          ELSE
          LET diff_size ==
                  IF symtab_index = -1 THEN -1
                  ELSE LET symtab_raw == lcs[symtab_index + 1].raw_lc
                           stroff == V32(SWAP32(SubSeq(symtab_raw, 17, 20), magic))
                           strsize == V32(SWAP32(SubSeq(symtab_raw, 21, 24), magic))
                       IN (arch.fat_arch.size - codesig_size) - (stroff + strsize)
              size_reduction == IF 0 <= diff_size /\ diff_size <= 16
                                THEN codesig_size + diff_size ELSE codesig_size
              new_filesize == linkedit_size - size_reduction
              linkedit_vmsize == ROUND_UP(new_filesize, 4096)
              m1 == [m EXCEPT !.archs[arch_index + 1].fat_arch.size = @ - size_reduction,
                              !.archs[arch_index + 1].load_commands[linkedit_index + 1].raw_lc =
                                  SetSegmentSizes(@, new_filesize, linkedit_vmsize)]
              m2 == IF steps >= 1 THEN write_fat_archs(m1) ELSE m1
              m3 == IF steps >= 2
                    THEN write_load_command(m2, ArchAt(m2, arch_index).load_commands[linkedit_index + 1])
                    ELSE m2
              m4 == IF steps >= 3 THEN remove_load_command(m3, arch_index, codesig_index) ELSE m3
          IN [m |-> m4, ret |-> TRUE]

remove_codesignature(m, arch_index, differs) ==
    remove_codesignature_upto(m, arch_index, differs, 3)

(***************************************************************************)
(* The inputs of the operations.                                           *)
(***************************************************************************)
Thin(kind) == [fat |-> FALSE, kinds |-> <<kind>>]
Fat(kinds) == [fat |-> TRUE, kinds |-> kinds]

\* the files a container is opened on
InitShapes ==
    {Thin("plain"), Thin("empty"), Thin("signed"), Thin("signed_rev"), Thin("signed64"),
     Thin("textonly"), Thin("sigmid"),
     Fat(<<"plain">>), Fat(<<"plain_arm">>), Fat(<<"signed_far", "plain_arm">>),
     Fat(<<"plain", "signed", "signed_rev">>)}

\* files whose signature is not contained in the segment it ends with
CraftedShapes ==
    {Thin("sigbig"), Thin("strout"), Thin("signed"), Fat(<<"sigbig", "plain_arm">>),
     Fat(<<"plain", "strout">>)}

\* the containers insert_arch_from_macho takes a slice from
DonorShapes == {Thin("plain"), Thin("signed"), Fat(<<"empty", "plain_arm">>)}

\* the payloads handed to insert_load_command
InsertPayloads == {PlainImage(LC_SOURCE_VERSION, 8, 0), PlainImage(LC_UUID, 24, 102)}

FileTypes == {MH_EXECUTE, MH_DYLIB}

\* the donor recorded for the calls that take none
NoDonor == [fat |-> FALSE, kinds |-> <<>>]

\* a call: the method, its arguments, the outcome of the segname comparisons
\* of remove_codesignature (differs), the file insert_arch_from_macho takes
\* its slice from (donor), and the value returned
Op(name, a, i, j, ret) ==
    [op |-> name, arch |-> a, i |-> i, j |-> j, differs |-> {}, donor |-> NoDonor, ret |-> ret]

(***************************************************************************)
(* The state machine: one action per public method.  last and pre record   *)
(* the last call and the object before it, last2 and pre2 the call before. *)
(***************************************************************************)
\* a container is opened on one of the files of shapes
InitFrom(shapes) ==
    \E shape \in shapes :
        LET m == MachO(FileOf(shape))
        IN /\ file = m.file
           /\ file_size = m.file_size
           /\ is_fat = m.is_fat
           /\ fat_magic = m.fat_magic
           /\ n_archs = m.n_archs
           /\ archs = m.archs
           /\ nops = 0
           /\ last = Op("open", 0, 0, 0, TRUE)
           /\ pre = m
           /\ last2 = Op("open", 0, 0, 0, TRUE)
           /\ pre2 = m
           /\ io = <<>>

Init == InitFrom(InitShapes)

Become(m, l) ==
    /\ nops < MaxOps
    /\ file' = m.file
    /\ file_size' = m.file_size
    /\ is_fat' = m.is_fat
    /\ fat_magic' = m.fat_magic
    /\ n_archs' = m.n_archs
    /\ archs' = m.archs
    /\ nops' = nops + 1
    /\ last' = l
    /\ pre' = Self
    /\ last2' = last
    /\ pre2' = pre
    /\ io' = m.log

ArchIndices == 0..(Len(archs) - 1)
LcIndices(a) == 0..(Len(archs[a + 1].load_commands) - 1)

MakeFat ==
    /\ ~is_fat
    /\ Become(make_fat(Called(Self)), Op("make_fat", 0, 0, 0, TRUE))

MakeThin ==
    /\ is_fat
    /\ \E a \in ArchIndices : \E read \in DanglingReads(Self, a) :
          Become(make_thin(Called(Self), a, read), Op("make_thin", a, 0, 0, TRUE))

RemoveArch ==
    /\ is_fat
    /\ \E a \in ArchIndices : Become(remove_arch(Called(Self), a), Op("remove_arch", a, 0, 0, TRUE))

InsertArch ==
    /\ is_fat
    /\ n_archs < MaxArchs
    /\ \E shape \in DonorShapes :
          LET macho == MachO(FileOf(shape))
          IN \E a \in 0..(macho.n_archs - 1) :
                Become(insert_arch_from_macho(Called(Self), macho, a),
                       [Op("insert_arch", a, 0, 0, TRUE) EXCEPT !.donor = shape])

MoveLoadCommand ==
    \E a \in ArchIndices : \E i \in LcIndices(a) : \E j \in LcIndices(a) :
        Become(move_load_command(Called(Self), a, i, j), Op("move_load_command", a, i, j, TRUE))

RemoveLoadCommand ==
    \E a \in ArchIndices : \E i \in LcIndices(a) :
        Become(remove_load_command(Called(Self), a, i), Op("remove_load_command", a, i, 0, TRUE))

\* the caller's duty: the slice has free (zero) room for the payload after
\* the sizeofcmds bytes of load commands that follow its mach header
HasRoom(m, arch, raw) ==
    LET room == SizeofMachHeader + arch.mach_header.sizeofcmds
    IN /\ room + Len(raw) <= arch.fat_arch.size
       /\ ReadAt(m.file, arch.fat_arch.offset + room, Len(raw)) = Zeros(Len(raw))

InsertLoadCommand ==
    \E a \in ArchIndices : \E raw \in InsertPayloads :
        /\ Len(archs[a + 1].load_commands) < MaxCmds
        /\ HasRoom(Self, archs[a + 1], raw)
        /\ Become(insert_load_command(Called(Self), a, raw), Op("insert_load_command", a, 0, 0, TRUE))

ChangeFileType ==
    \E a \in ArchIndices : \E t \in FileTypes :
        Become(change_file_type(Called(Self), a, t), Op("change_file_type", a, t, 0, TRUE))

RemoveCodesignature ==
    \E a \in ArchIndices : \E differs \in SUBSET SegmentIndices(archs[a + 1]) :
        LET r == remove_codesignature(Called(Self), a, differs)
        IN Become(r.m, [Op("remove_codesignature", a, 0, 0, r.ret) EXCEPT !.differs = differs])

\* remove_codesignature cut off after the first steps of its three write
\* steps; the process is gone and the file is opened again
InterruptedRemoveCodesignature ==
    \E a \in ArchIndices : \E differs \in SUBSET SegmentIndices(archs[a + 1]) :
        \E steps \in 0..3 :
            LET r == remove_codesignature_upto(Called(Self), a, differs, steps)
            IN Become([Called(MachO(r.m.file)) EXCEPT !.log = r.m.log],
                      [Op("interrupted_remove_codesignature", a, steps, 0, r.ret)
                           EXCEPT !.differs = differs])

Next ==
    \/ MakeFat
    \/ MakeThin
    \/ RemoveArch
    \/ InsertArch
    \/ MoveLoadCommand
    \/ RemoveLoadCommand
    \/ InsertLoadCommand
    \/ ChangeFileType
    \/ RemoveCodesignature

Spec == Init /\ [][Next]_vars

\* signature removal on an opened file, cut off or not, and the retry
NextRetry ==
    \/ InterruptedRemoveCodesignature
    \/ RemoveCodesignature

SpecRetry == Init /\ [][NextRetry]_vars

\* the operations on files whose signature sticks out of its segment
InitCrafted == InitFrom(CraftedShapes)

SpecCrafted == InitCrafted /\ [][Next]_vars

(***************************************************************************)
(* Properties.                                                             *)
(***************************************************************************)
\* the offset the i-th load command (from 1) of arch has when the commands
\* lie contiguously after the mach header of the slice
ContiguousOffset(arch, i) ==
    arch.fat_arch.offset + SizeofMachHeader + SumCmdsize(SubSeq(arch.load_commands, 1, i - 1))

SliceLayout(m) ==
    /\ \A i \in 1..Len(m.archs) :
          /\ m.archs[i].fat_arch.offset % Pow2(m.archs[i].fat_arch.align) = 0
          /\ m.archs[i].fat_arch.offset + m.archs[i].fat_arch.size <= m.file_size
    /\ \A i, j \in 1..Len(m.archs) :
          i < j => m.archs[i].fat_arch.offset + m.archs[i].fat_arch.size
                      <= m.archs[j].fat_arch.offset

\* C1: after any sequence of operations every slice is aligned to 2^align,
\* lies inside the file, and the slices are disjoint and in list order.
C1_SliceLayout == SliceLayout(Self)

LoadCommandTable(arch) ==
    /\ SumCmdsize(arch.load_commands) = arch.mach_header.sizeofcmds
    /\ Len(arch.load_commands) = arch.mach_header.ncmds
    /\ \A i \in 1..Len(arch.load_commands) :
          arch.load_commands[i].file_offset = ContiguousOffset(arch, i)

\* C2: after any sequence of operations, in every arch the command sizes sum
\* to sizeofcmds, the list has ncmds elements, and every command's file_offset
\* is the slice's header end plus the sizes of the commands before it.
C2_LoadCommandTable == \A i \in 1..Len(archs) : LoadCommandTable(archs[i])

OnDiskFatIndex(m) ==
    m.is_fat =>
        /\ ReadAt(m.file, 0, SizeofFatHeader) = FatHeaderImage(m.fat_magic, m.n_archs)
        /\ ReadAt(m.file, SizeofFatHeader, SizeofFatArch * Len(m.archs))
               = EntryImages(m.archs, m.fat_magic)

OnDiskArch(m, arch) ==
    /\ arch.fat_arch.offset + SizeofMachHeader <= Len(m.file)
    /\ ReadAt(m.file, arch.fat_arch.offset, SizeofMachHeader) = MachHeaderImage(arch.mach_header)
    /\ \A k \in 1..Len(arch.load_commands) :
          LET lc == arch.load_commands[k]
          IN /\ lc.file_offset + lc.cmdsize <= Len(m.file)
             /\ ReadAt(m.file, lc.file_offset, lc.cmdsize) = lc.raw_lc

\* C3: after every operation the file holds what the object describes: the
\* fat header and entries when fat, every mach header at its slice's offset,
\* every load command's payload at its file_offset.
C3_DiskMatchesMemory ==
    /\ OnDiskFatIndex(Self)
    /\ \A i \in 1..Len(archs) : OnDiskArch(Self, archs[i])

\* C4: after make_fat the container is fat, the file starts with the fat
\* header (FAT_CIGAM, 1), its one entry holds offset round_up(8, 2^align) and
\* the unchanged size and align, and the slice bytes are the original file.
C4_MakeFatResult ==
    last.op = "make_fat" =>
        LET old == pre.archs[1].fat_arch
            offset == ROUND_UP(SizeofFatHeader, Pow2(old.align))
        IN /\ is_fat
           /\ ReadAt(file, 0, SizeofFatHeader) = FatHeaderImage(FAT_CIGAM, 1)
           /\ ReadAt(file, SizeofFatHeader, SizeofFatArch)
                  = swap_arch([old EXCEPT !.offset = offset], FAT_CIGAM)
           /\ Len(file) >= offset + old.size
           /\ ReadAt(file, offset, old.size) = ReadAt(pre.file, 0, old.size)

\* a thin file: the container is thin and its file is exactly its one slice
\* (the condition write_fat_archs keeps for a thin container)
ThinFile(m) ==
    /\ ~m.is_fat
    /\ Len(m.file) = m.file_size
    /\ m.archs[1].fat_arch.size = m.file_size

\* C5: make_fat on a thin file followed by make_thin(0) leaves the file as it
\* was before make_fat, byte for byte and in length.
C5_FatThinRoundTrip ==
    (last2.op = "make_fat" /\ last.op = "make_thin" /\ last.arch = 0 /\ ThinFile(pre2))
        => file = pre2.file

C5_Witness ==
    /\ last2.op = "make_fat" /\ last.op = "make_thin" /\ last.arch = 0
    /\ ThinFile(pre2) /\ Len(pre2.file) > 0 /\ file = pre2.file

InverseMoves ==
    /\ last2.op = "move_load_command" /\ last.op = "move_load_command"
    /\ last.arch = last2.arch /\ last.i = last2.j /\ last.j = last2.i

\* C6: move_load_command(a,i,j) followed by move_load_command(a,j,i) restores
\* the file byte for byte, and with it the order of the commands.
C6_MoveInverse ==
    InverseMoves =>
        /\ file = pre2.file
        /\ archs[last.arch + 1].load_commands = pre2.archs[last.arch + 1].load_commands

\* the list lcs with the subrange from..to (from 0) rotated left by one, the
\* shifted commands moved down by the size of the moved one, the moved one up
\* by the sizes of the shifted ones
RotatedLeft(lcs, from, to) ==
    LET shift == SumCmdsize(SubSeq(lcs, from + 2, to + 1))
        Down(s) == IF Len(s) = 0 THEN <<>> ELSE
                   [k \in 1..Len(s) |-> [s[k] EXCEPT !.file_offset = @ - lcs[from + 1].cmdsize]]
    IN SubSeq(lcs, 1, from) \o Down(SubSeq(lcs, from + 2, to + 1))
       \o <<[lcs[from + 1] EXCEPT !.file_offset = @ + shift]>>
       \o SubSeq(lcs, to + 2, Len(lcs))

PayloadsOnDisk(f, lcs) ==
    \A k \in 1..Len(lcs) : ReadAt(f, lcs[k].file_offset, lcs[k].cmdsize) = lcs[k].raw_lc

\* C7: for from < to, move_load_command(a, from, to) leaves the list of
\* commands with the subrange from..to rotated left by one, the file offsets
\* adjusted accordingly, and the commands of the subrange on disk in that order.
C7_MoveResult ==
    (last.op = "move_load_command" /\ last.i < last.j) =>
        LET old == pre.archs[last.arch + 1].load_commands
            new == archs[last.arch + 1].load_commands
        IN /\ Len(new) = Len(old)
           /\ \A k \in 1..Len(new) : new[k] = RotatedLeft(old, last.i, last.j)[k]
           /\ PayloadsOnDisk(file, SubSeq(new, last.i + 1, last.j + 1))

CodesigCmds(arch) == {k \in 1..Len(arch.load_commands) : arch.load_commands[k].cmd = LC_CODE_SIGNATURE}
SegmentCmds(arch) == {k \in 1..Len(arch.load_commands) : IsSegment(arch.load_commands[k])}
LinkeditCmds(arch) == {k \in SegmentCmds(arch) : SegName(arch.load_commands[k].raw_lc) = SEG_LINKEDIT}
CodesigDataoff(lc) == V32(SubSeq(lc.raw_lc, 9, 12))
CodesigDatasize(lc) == V32(SubSeq(lc.raw_lc, 13, 16))
SegmentEnd(lc) == SegFileoff(lc.raw_lc) + SegFilesize(lc.raw_lc)

\* a signed slice: one code signature and a __LINKEDIT segment, both ending
\* at the end of the slice
Removable(arch) ==
    /\ Cardinality(CodesigCmds(arch)) = 1
    /\ \A k \in CodesigCmds(arch) :
          CodesigDataoff(arch.load_commands[k]) + CodesigDatasize(arch.load_commands[k])
              = arch.fat_arch.size
    /\ Cardinality(LinkeditCmds(arch)) = 1
    /\ \A k \in LinkeditCmds(arch) : SegmentEnd(arch.load_commands[k]) = arch.fat_arch.size

\* C8: on a signed slice remove_codesignature returns true, leaves no
\* LC_CODE_SIGNATURE command, makes the __LINKEDIT segment end at the new
\* slice size and rewrites no other segment.
C8_RemoveCodesigSuccess ==
    (last.op = "remove_codesignature" /\ Removable(pre.archs[last.arch + 1])) =>
        LET old == pre.archs[last.arch + 1]
            new == archs[last.arch + 1]
        IN /\ last.ret
           /\ CodesigCmds(new) = {}
           /\ \A k \in SegmentCmds(new) :
                 IF k \in LinkeditCmds(new)
                 THEN SegmentEnd(new.load_commands[k]) = new.fat_arch.size
                 ELSE \E o \in SegmentCmds(old) :
                         old.load_commands[o].raw_lc = new.load_commands[k].raw_lc

\* the slice fails a validation of remove_codesignature
NotRemovable(arch) ==
    \/ CodesigCmds(arch) = {}
    \/ LinkeditCmds(arch) = {}
    \/ \E k \in CodesigCmds(arch) :
          CodesigDataoff(arch.load_commands[k]) + CodesigDatasize(arch.load_commands[k])
              # arch.fat_arch.size
    \/ \E k \in LinkeditCmds(arch) : SegmentEnd(arch.load_commands[k]) # arch.fat_arch.size

\* C9: on a slice without code signature or without __LINKEDIT segment, or
\* whose signature or __LINKEDIT does not end at the slice end,
\* remove_codesignature returns false and changes neither file nor object.
C9_RemoveCodesigRejects ==
    (last.op = "remove_codesignature" /\ NotRemovable(pre.archs[last.arch + 1])) =>
        /\ ~last.ret
        /\ Self = pre

\* the size of the signature remove_codesignature(a) took from the slice
RemovedDatasize ==
    LET old == pre.archs[last.arch + 1]
    IN CodesigDatasize(old.load_commands[
           LastIndex(CmdIndices(old.load_commands, LC_CODE_SIGNATURE)) + 1])

ShrunkByReduction ==
    LET reduction == Len(pre.file) - Len(file)
    IN RemovedDatasize <= reduction /\ reduction <= RemovedDatasize + 16

\* C10 as claimed: whenever remove_codesignature(a) returns true on a fat
\* container, for any arch a, the file is shorter by reduction, where
\* datasize <= reduction <= datasize + 16.
C10_ShrinkAnyArch ==
    (last.op = "remove_codesignature" /\ last.ret /\ pre.is_fat) => ShrunkByReduction

\* the offsets remove_arch is to give the archs as (the survivors from the
\* removed index on): each at the previous end rounded up to its alignment
RECURSIVE PackedOffsets(_, _)
PackedOffsets(as, prev_end) ==
    IF Len(as) = 0 THEN <<>>
    ELSE LET off == ROUND_UP(prev_end, Pow2(Head(as).fat_arch.align))
         IN <<off>> \o PackedOffsets(Tail(as), off + Head(as).fat_arch.size)

\* the arch list remove_arch(i) is to leave for the list as (i from 0)
PackedArchs(as, i) ==
    LET keep == SubSeq(as, 1, i)
        rest == SubSeq(as, i + 2, Len(as))
        prev_end == IF i = 0 THEN SizeofFatHeader
                    ELSE as[i].fat_arch.offset + as[i].fat_arch.size
        offs == PackedOffsets(rest, prev_end)
    IN keep \o [k \in 1..Len(rest) |-> [rest[k] EXCEPT !.fat_arch.offset = offs[k]]]

\* the bytes of the slice of arch in the file f
SliceBytes(f, arch) == ReadAt(f, arch.fat_arch.offset, arch.fat_arch.size)

\* C11: after remove_arch(i) on a fat container that satisfies the slice
\* layout, the arch list is the old one without element i, the archs before i
\* keep their offset, every later arch lies at the previous end rounded up to
\* its alignment (never above its old offset), every surviving slice has at
\* its new offset the bytes it had before, and the file ends with the last
\* surviving slice.
C11_RemoveArchPacking ==
    (last.op = "remove_arch" /\ pre.is_fat /\ SliceLayout(pre) /\ Len(pre.file) = pre.file_size) =>
        LET old == RemoveAt(pre.archs, last.arch)
        IN /\ archs = PackedArchs(pre.archs, last.arch)
           /\ n_archs = Len(archs)
           /\ \A k \in 1..Len(archs) :
                 /\ archs[k].fat_arch.offset <= old[k].fat_arch.offset
                 /\ SliceBytes(file, archs[k]) = SliceBytes(pre.file, old[k])
           /\ Len(archs) > 0 =>
                 /\ file_size = Back(archs).fat_arch.offset + Back(archs).fat_arch.size
                 /\ Len(file) = file_size

\* a container whose file is as long as file_size says and whose slices lie
\* aligned, in order and inside the file
WellFormed(m) == SliceLayout(m) /\ Len(m.file) = m.file_size

\* C12: after insert_arch_from(other, i) on a fat container the new arch is
\* the last one, at offset round_up(old file_size, 2^align); the file is
\* offset + size long; the bytes from the old file end to offset are zero; the
\* new slice holds the donor's bytes [other_entry.offset, +size); and the
\* slices present before hold the bytes they held.
C12_InsertArchResult ==
    (last.op = "insert_arch" /\ pre.is_fat /\ WellFormed(pre)) =>
        LET other == MachO(FileOf(last.donor))
            entry == ArchAt(other, last.arch).fat_arch
            offset == ROUND_UP(pre.file_size, Pow2(entry.align))
        IN /\ n_archs = pre.n_archs + 1
           /\ Len(archs) = Len(pre.archs) + 1
           /\ Back(archs).fat_arch = [entry EXCEPT !.offset = offset]
           /\ file_size = offset + entry.size
           /\ Len(file) = file_size
           /\ ReadAt(file, pre.file_size, offset - pre.file_size)
                  = Zeros(offset - pre.file_size)
           /\ ReadAt(file, offset, entry.size) = ReadAt(other.file, entry.offset, entry.size)
           /\ \A k \in 1..Len(pre.archs) :
                 /\ archs[k].fat_arch = pre.archs[k].fat_arch
                 /\ SliceBytes(file, archs[k]) = SliceBytes(pre.file, pre.archs[k])

\* the fat index of m ends at or below the first slice
IndexClear(m) ==
    \A k \in 1..Len(m.archs) :
        SizeofFatHeader + SizeofFatArch * Len(m.archs) <= m.archs[k].fat_arch.offset

RECURSIVE Payloads(_)
Payloads(lcs) == IF Len(lcs) = 0 THEN <<>> ELSE <<Head(lcs).raw_lc>> \o Payloads(Tail(lcs))

\* the commands of arch lie one after the other on disk from the header end
\* and the object records them there
ContiguousOnDisk(f, arch) ==
    /\ \A k \in 1..Len(arch.load_commands) :
          arch.load_commands[k].file_offset = ContiguousOffset(arch, k)
    /\ ReadAt(f, arch.fat_arch.offset + SizeofMachHeader, SumCmdsize(arch.load_commands))
           = Flatten(Payloads(arch.load_commands))

\* C14: remove_load_command(a, i) leaves the old list without element i, in
\* the old order and contiguous on disk from the header end, ncmds smaller by
\* one and sizeofcmds by the removed cmdsize, the last cmdsize bytes of the
\* old load-command region zero, and the slice's offset and size as they were.
C14_RemoveLoadCommandResult ==
    last.op = "remove_load_command" =>
        LET old == ArchAt(pre, last.arch)
            new == archs[last.arch + 1]
            removed == old.load_commands[last.i + 1]
            region_end == old.fat_arch.offset + SizeofMachHeader + old.mach_header.sizeofcmds
        IN /\ Payloads(new.load_commands) = RemoveAt(Payloads(old.load_commands), last.i)
           /\ ContiguousOnDisk(file, new)
           /\ new.mach_header.ncmds = old.mach_header.ncmds - 1
           /\ new.mach_header.sizeofcmds = old.mach_header.sizeofcmds - removed.cmdsize
           /\ ReadAt(file, region_end - removed.cmdsize, removed.cmdsize) = Zeros(removed.cmdsize)
           /\ new.fat_arch = old.fat_arch

\* the call before the last one was a remove_codesignature on a signed slice
\* that passed the validations and was cut off, and the last call is the
\* retry on the same arch of the file opened again, with the segname
\* comparisons turning out as they did in the first call
RetryAfterInterrupt ==
    /\ last2.op = "interrupted_remove_codesignature"
    /\ last2.ret
    /\ Removable(ArchAt(pre2, last2.arch))
    /\ last.op = "remove_codesignature"
    /\ last.arch = last2.arch
    /\ last.differs = last2.differs

\* C15: when remove_codesignature on a slice that meets its preconditions is
\* cut off after any number of its write steps, the retry on the reopened
\* file does not return false while the file still holds an
\* LC_CODE_SIGNATURE command in that slice.
C15_RetryCompletes ==
    RetryAfterInterrupt => (last.ret \/ CodesigCmds(ArchAt(pre, last.arch)) = {})

\* the I/O call e reads or writes a byte at or beyond the offset from
TouchesFrom(e, from) ==
    /\ e.ev # "truncate"
    /\ e.len > 0
    /\ \/ e.dst + e.len > from
       \/ e.src >= 0 /\ e.src + e.len > from

Shrinks(e) == e.ev = "truncate" /\ e.dst < e.flen

\* (a) once a call has cut the file down to a length, no later call of the
\* same operation moves from, or writes to, bytes at or beyond that length
ShrinkComesLast(calls) ==
    \A p, q \in 1..Len(calls) :
        (p < q /\ Shrinks(calls[p])) => ~TouchesFrom(calls[q], calls[p].dst)

Grows(e) == e.ev = "truncate" /\ e.dst > e.flen

\* (b) no call issued before a growing truncation moves, zeroes or copies
\* into the range from the old file end on, which that truncation adds
GrowComesFirst(calls) ==
    \A p, q \in 1..Len(calls) :
        (q < p /\ Grows(calls[p])) => ~TouchesFrom(calls[q], calls[p].flen)

LayoutOps == {"make_fat", "insert_arch", "remove_arch"}

\* the calls made so far are calls of the operations ops
OnlyCalls(ops) == last.op \in ops /\ last2.op \in ops \cup {"open"}

\* C17: after any sequence of make_fat, insert_arch_from and remove_arch the
\* fat header and entry table, bytes [0, 8 + 20 * n_archs), end at or below
\* every slice, whatever the alignment of the slices.
C17_IndexDisjoint ==
    (is_fat /\ OnlyCalls(LayoutOps)) => IndexClear(Self)

\* the operations on the load commands of one arch
LoadCommandOps ==
    {"move_load_command", "remove_load_command", "insert_load_command", "change_file_type"}

\* the bytes of f before the offset from, and from the offset to on
BytesOutside(f, from, to) == <<SubSeq(f, 1, Min(from, Len(f))), SubSeq(f, to + 1, Len(f))>>

\* C18: move_load_command, remove_load_command, insert_load_command and
\* change_file_type on arch a leave the file size, every fat entry, every
\* other arch and every byte outside a's slice as they were.
C18_ConfinedToSlice ==
    last.op \in LoadCommandOps =>
        LET a == ArchAt(pre, last.arch).fat_arch
        IN /\ file_size = pre.file_size
           /\ Len(file) = Len(pre.file)
           /\ Len(archs) = Len(pre.archs)
           /\ \A k \in 1..Len(archs) :
                 /\ archs[k].fat_arch = pre.archs[k].fat_arch
                 /\ k # last.arch + 1 => archs[k] = pre.archs[k]
           /\ BytesOutside(file, a.offset, a.offset + a.size)
                  = BytesOutside(pre.file, a.offset, a.offset + a.size)

\* what remove_codesignature took from the size of the slice it worked on
SizeReduction == ArchAt(pre, last.arch).fat_arch.size - archs[last.arch + 1].fat_arch.size

\* the segment command (index from 0) the scan of the last
\* remove_codesignature settled on, in the list before the call
SelectedSegment == LastIndex(SegmentIndices(ArchAt(pre, last.arch)) \cap last.differs)

\* the place of that command in the list after the call, the signature
\* command being gone
SelectedSegmentAfter ==
    LET codesig == LastIndex(CmdIndices(ArchAt(pre, last.arch).load_commands, LC_CODE_SIGNATURE))
    IN IF SelectedSegment > codesig THEN SelectedSegment - 1 ELSE SelectedSegment

\* C19: whenever remove_codesignature passes its validations, the size
\* reduction (datasize plus a tail gap of 0..16) is at most the filesize of
\* the selected segment and at most the slice size, so that neither
\* subtraction wraps, and the new vmsize is the new filesize rounded up to
\* 0x1000.
C19_NoUnderflow ==
    (last.op = "remove_codesignature" /\ last.ret) =>
        LET old == ArchAt(pre, last.arch)
            seg == old.load_commands[SelectedSegment + 1].raw_lc
            new_seg == archs[last.arch + 1].load_commands[SelectedSegmentAfter + 1].raw_lc
        IN /\ RemovedDatasize <= SizeReduction
           /\ SizeReduction <= RemovedDatasize + 16
           /\ SizeReduction <= SegFilesize(seg)
           /\ SizeReduction <= old.fat_arch.size
           /\ SegFilesize(new_seg) = SegFilesize(seg) - SizeReduction
           /\ SegVmsize(new_seg) = ROUND_UP(SegFilesize(new_seg), 4096)

\* the operations that set file_size
SizingOps == {"make_fat", "make_thin", "remove_arch", "insert_arch", "remove_codesignature"}

\* none of the calls made so far read through make_thin's dangling reference
NoDanglingRead ==
    /\ ~(last.op = "make_thin" /\ last.arch > 0)
    /\ ~(last2.op = "make_thin" /\ last2.arch > 0)

\* C20: after every operation of any sequence of make_fat, make_thin,
\* remove_arch, insert_arch_from and remove_codesignature, file_size is the
\* length of the file (shown here already for the sequences free of
\* undefined behaviour).
C20_FileSizeTracksFile ==
    (OnlyCalls(SizingOps) /\ NoDanglingRead) => file_size = Len(file)

====
